---- MODULE Spec2Model ----
(***************************************************************************)
(* Model of the three HTTP servers of the repository and of the shared     *)
(* Repository each of them protects:                                       *)
(*   bad_server.go        BadHandler      mutex held by defer (HeldLock)   *)
(*   good_server.go       GoodHandler     two short critical sections      *)
(*                                        (MinimalLock)                    *)
(*   syncmap server       SyncMapHandler  atomic counter + sync.Map        *)
(*                                        (LockFree)                       *)
(* Every server is its own process with its own Repository; the variable   *)
(* strategy, fixed by Init, says which of the three is running.  Each      *)
(* /process request is one handler goroutine h \in Handlers, and one       *)
(* goroutine serves a /stats query, which arrives at any time.             *)
(***************************************************************************)
EXTENDS Integers, Sequences, FiniteSets, TLC

\* ---------------------------------------------------------------- bounds
\* number of /process requests the server receives
NumHandlers == 2
\* largest value the wall clock (time.Now) takes
MaxClock == 1
\* iterations of the CPU loop (the servers use 1000000; scaled down)
LoopIters == 4
\* clock ticks the heavy work (the 10 ms sleep and the CPU loop) takes
WorkTicks == 2
\* goroutines that call Store on one sync.Map, and the keys they use
NumWriters == 3
NumKeys == 2
\* largest concurrency and request count (b.N, totalRequests) of a load run
MaxConcurrency == 2
MaxRequests == 4
\* last instant of the wall clock of a load run
MaxLoadClock == 2

Handlers == 1 .. NumHandlers
\* the goroutine serving /stats
StatsProc == NumHandlers + 1
\* value of mu when the mutex is unlocked
NoHolder == 0

HeldLock == "HeldLock"
MinimalLock == "MinimalLock"
LockFree == "LockFree"
Strategies == {HeldLock, MinimalLock, LockFree}

\* references to map objects: the repository's map, or the map a handler
\* made for its dataCopy (one per handler), or nil
RepoRef == 0
NilRef == -1

EmptyMap == << >>
NoResponse == << >>

VARIABLES
    strategy,        \* which server is running
    mu,              \* Repository.mu: NoHolder, or the goroutine that locked it
    counter,         \* Repository.counter
    data,            \* Repository.data: key -> value
    now,             \* the last reading of the wall clock
    pc,              \* position of every handler goroutine
    currentCounter,  \* local currentCounter of every handler (0: not yet set)
    dataCopy,        \* local dataCopy of every handler: a map reference
    copies,          \* the map objects made by the handlers
    rangeMust,       \* keys present when a handler's iteration began
    result,          \* local result of every handler
    key,             \* local key of every handler
    response,        \* the JSON body a handler encoded to its ResponseWriter
    statsPc,         \* position of the /stats goroutine
    statsCounter,    \* its total_requests value
    statsDataSize,   \* its data_size value
    statsVisited,    \* keys its sync.Map.Range has visited
    statsMust,       \* keys present when its Range began
    statsOut,        \* the JSON body it encoded
    start,           \* start of every handler: its reading of the clock
    tWaited,         \* history: ticks a handler waited for the mutex
                     \* before it had its id
    acquired,        \* history: calls of r.mu.Lock() that returned, by handler
    released,        \* history: calls of r.mu.Unlock() made, by handler
    statsBegin,      \* history: Quiescent when the /stats query first read
                     \* the repository
    tclock,          \* timed behaviours: clock ticks elapsed
    tleft,           \* timed behaviours: ticks of heavy work every handler
                     \* still has to spend
    smap,            \* a sync.Map on its own: its entries
    swpc,            \* position of every goroutine that calls Store on it
    swkey,           \* the key every such goroutine stores
    slast,           \* history: per key, the value of the last completed Store
    sread,           \* the key and value of a Load made after all Stores
    lgFn,            \* load run: the function that runs
    lgConcurrency,   \* its argument concurrency
    lgRequests,      \* its totalRequests, or b.N
    lgMain,          \* position of the goroutine that called it
    lgPerG,          \* requestsPerGoroutine
    lgI,             \* i of the loop that starts the workers
    lgWg,            \* the counter of the WaitGroup wg
    lgW,             \* position of every worker goroutine
    lgJ,             \* j of every worker's loop
    lgChan,          \* the buffered channel latencies
    lgTotalLatency,  \* totalLatency
    lgCount,         \* count
    lgResult,        \* what the function returned or reported
    lgErrors,        \* number of b.Errorf reports made
    lgAttempts,      \* history: client.Get calls made by every worker
    lgOk,            \* history: requests that returned without error
    lgFailed,        \* history: requests that returned an error
    lgClock,         \* the wall clock of the load run
    lgStart,         \* start of benchmarkServer
    lgReqStart,      \* start of every worker of measureAverageLatency
    lgSumDur,        \* history: sum of the durations of the requests
    lgSpawnAt,       \* history: instant the first worker was started
    lgDoneAt         \* history: instant a worker last ended

tmVars == << tclock, tleft >>
stVars == << smap, swpc, swkey, slast, sread >>
lgIn == << lgFn, lgConcurrency, lgRequests >>
lgMainVars == << lgMain, lgPerG, lgI, lgTotalLatency, lgCount, lgResult >>
lgWorkVars == << lgW, lgJ, lgAttempts >>
lgTime == << lgClock, lgStart, lgSumDur, lgSpawnAt, lgDoneAt >>
lgVars == << lgIn, lgMainVars, lgWorkVars, lgWg, lgChan, lgErrors, lgOk,
             lgFailed, lgTime, lgReqStart >>

\* the variables the three servers do not touch
auxVars == << tmVars, stVars, lgVars >>

vars == << strategy, mu, counter, data, now, pc, currentCounter, dataCopy,
           copies, rangeMust, result, key, response, statsPc, statsCounter,
           statsDataSize, statsVisited, statsMust, statsOut, statsBegin,
           acquired, released, start, tWaited, auxVars >>

repoVars == << mu, counter, data >>
lkVars == << acquired, released >>
tsVars == << start, tWaited >>
serverVars == << lkVars, strategy, mu, counter, data, now, pc, currentCounter,
                 dataCopy, copies, rangeMust, result, key, response, statsPc,
                 statsCounter, statsDataSize, statsVisited, statsMust,
                 statsOut, statsBegin >>
statsVars == << statsPc, statsCounter, statsDataSize, statsVisited,
                statsMust, statsOut, statsBegin >>
handlerVars == << pc, currentCounter, dataCopy, copies, rangeMust, result,
                  key, response >>

\* ------------------------------------------------------- pure operators

\* strconv of a non-negative int, as fmt's %d prints it: the decimal digits
RECURSIVE Digits(_)
Digits(n) == IF n < 10 THEN << n >> ELSE Digits(n \div 10) \o << n % 10 >>

\* a key without the id
FmtKeyNoId(id) == << "request_" >>

\* fmt.Sprintf("request_%d", id)
FmtKey(id) == << "request_" >> \o Digits(id)

\* fmt.Sprintf("Request %d", id)
FmtName(id) == << "Request " >> \o Digits(id)

\* result := 0; for i := 0; i < LoopIters; i++ { result += i }
RECURSIVE CpuLoopFrom(_, _)
CpuLoopFrom(i, acc) ==
    IF i < LoopIters THEN CpuLoopFrom(i + 1, acc + i) ELSE acc

CpuLoop == CpuLoopFrom(0, 0)

\* &DataStruct{Identifier: key, Name: ..., IsActive: true, Counter: result,
\*             LastModified: time.Now()}
NewDataStruct(k, id, res, t) ==
    [ Identifier |-> k, Name |-> FmtName(id), IsActive |-> TRUE,
      Counter |-> res, LastModified |-> t ]

\* a copy that drops the timestamp (LastModified left at its zero value)
CopyDataStructNoTime(v) ==
    [ Identifier |-> v.Identifier, Name |-> v.Name, IsActive |-> v.IsActive,
      Counter |-> v.Counter, LastModified |-> -1 ]

\* &DataStruct{Identifier: v.Identifier, ..., LastModified: v.LastModified}
CopyDataStruct(v) ==
    [ Identifier |-> v.Identifier, Name |-> v.Name, IsActive |-> v.IsActive,
      Counter |-> v.Counter, LastModified |-> v.LastModified ]

\* a store that replaces the whole map by the one entry
MapStoreOnly(m, k, v) == [ x \in {k} |-> v ]

\* a store that keeps the value a key already has (LoadOrStore)
MapStoreIfAbsent(m, k, v) ==
    [ x \in (DOMAIN m) \cup {k} |-> IF x \in DOMAIN m THEN m[x] ELSE v ]

\* m[k] = v on a Go map, sync.Map.Store(k, v)
MapStore(m, k, v) ==
    [ x \in (DOMAIN m) \cup {k} |-> IF x = k THEN v ELSE m[x] ]

\* len(m)
MapLen(m) == Cardinality(DOMAIN m)

\* time.Now(): the wall clock never runs backwards; t is the last reading
TimeNow(t) == t .. MaxClock

\* time.Since(start) measured from the origin of the clock
SinceEpoch(t, clock) ==
    clock

\* time.Since(time.Now()): no time has passed
SinceNow(t, clock) ==
    0

\* time.Since(t) at the instant clock
Since(t, clock) ==
    clock - t

\* a Lock that never waits
MutexFreeAlways(m) == TRUE

\* sync.Mutex: Lock returns only when the mutex is unlocked
MutexFree(m) == m = NoHolder

\* an Unlock that leaves the mutex locked
MutexUnlockNoop(m) == m

\* sync.Mutex: Unlock leaves the mutex unlocked
MutexUnlock(m) == NoHolder

\* a fetch-and-add that returns the value before the addition
AddInt64Old(c, d) == c

\* the value atomic.AddInt64(&c, d) returns: the new value
AddInt64(c, d) == c + d

\* a stats query that counts itself as a request
CounterAfterIncrement(c) == c + 1

\* the counter after a stats query has read it (r.counter,
\* atomic.LoadInt64(&r.counter)): a read leaves it as it is
CounterAfterRead(c) == c

\* dataCopy := r.data, no new map
MakeMapAliased(h) == RepoRef

\* make(map[...]...) in handler h yields a new map object, owned by h
MakeMap(h) == h

\* the map object a reference denotes
Deref(ref) == IF ref = RepoRef THEN data ELSE copies[ref]

\* ------------------------------------------------------------ helpers

Goto(h, from, to) == pc[h] = from /\ pc' = [pc EXCEPT ![h] = to]

\* m[k] = v where m is the map object that ref denotes
StoreAt(ref, k, v) ==
    IF ref = RepoRef
    THEN data' = MapStore(data, k, v) /\ UNCHANGED copies
    ELSE copies' = [copies EXCEPT ![ref] = MapStore(@, k, v)] /\ UNCHANGED data

\* the handler returns: its locals are gone
DropLocals(h) ==
    /\ dataCopy' = [dataCopy EXCEPT ![h] = NilRef]
    /\ copies' = [copies EXCEPT ![h] = EmptyMap]

InFlight == { h \in Handlers : pc[h] \notin {"idle", "done"} }
Done == { h \in Handlers : pc[h] = "done" }

\* the number of completed requests if no request is in flight, else -1
Quiescent == IF InFlight = {} THEN Cardinality(Done) ELSE -1

\* ------------------------------------------------------------------ Init

\* NewRepository(), and no request received yet
ServerInit ==
    /\ strategy \in Strategies
    /\ mu = NoHolder
    /\ counter = 0
    /\ data = EmptyMap
    /\ now = 0
    /\ pc = [h \in Handlers |-> "idle"]
    /\ currentCounter = [h \in Handlers |-> 0]
    /\ dataCopy = [h \in Handlers |-> NilRef]
    /\ copies = [h \in Handlers |-> EmptyMap]
    /\ rangeMust = [h \in Handlers |-> {}]
    /\ result = [h \in Handlers |-> 0]
    /\ key = [h \in Handlers |-> << >>]
    /\ response = [h \in Handlers |-> NoResponse]
    /\ statsPc = "idle"
    /\ statsCounter = 0
    /\ statsDataSize = 0
    /\ statsVisited = {}
    /\ statsMust = {}
    /\ statsOut = NoResponse
    /\ statsBegin = -1
    /\ acquired = [h \in Handlers |-> 0]
    /\ released = [h \in Handlers |-> 0]
    /\ start = [h \in Handlers |-> 0]
    /\ tWaited = [h \in Handlers |-> 0]

\* the clock of the timed behaviours, not running
TimedIdle ==
    /\ tclock = 0
    /\ tleft = [h \in Handlers |-> 0]

Writers == 1 .. NumWriters
NoRead == << >>

\* no sync.Map on its own
StoreIdle ==
    /\ smap = EmptyMap
    /\ swpc = [w \in Writers |-> "done"]
    /\ swkey = [w \in Writers |-> FmtKey(1)]
    /\ slast = EmptyMap
    /\ sread = NoRead

\* worker goroutines a load run can start
WorkerIds == 1 .. (MaxConcurrency + 1)
NoResult == << >>
\* no instant
Never == -1

\* no load run
LoadIdle ==
    /\ lgFn = "none"
    /\ lgConcurrency = 1
    /\ lgRequests = 0
    /\ lgMain = "done"
    /\ lgPerG = 0
    /\ lgI = 0
    /\ lgWg = 0
    /\ lgW = [w \in WorkerIds |-> "none"]
    /\ lgJ = [w \in WorkerIds |-> 0]
    /\ lgChan = << >>
    /\ lgTotalLatency = 0
    /\ lgCount = 0
    /\ lgResult = NoResult
    /\ lgErrors = 0
    /\ lgAttempts = [w \in WorkerIds |-> 0]
    /\ lgOk = 0
    /\ lgFailed = 0
    /\ lgClock = 0
    /\ lgStart = 0
    /\ lgReqStart = [w \in WorkerIds |-> 0]
    /\ lgSumDur = 0
    /\ lgSpawnAt = Never
    /\ lgDoneAt = Never

Init == ServerInit /\ TimedIdle /\ StoreIdle /\ LoadIdle

\* ------------------------------------------- bad_server.go: BadHandler

\* start := time.Now()
Bad_Start(h) ==
    /\ strategy = HeldLock
    /\ Goto(h, "idle", "lock")
    /\ start' = [start EXCEPT ![h] = tclock]
    /\ UNCHANGED << auxVars, tWaited, lkVars, strategy, repoVars, now, currentCounter, dataCopy, copies,
                    rangeMust, result, key, response, statsVars >>

\* r.mu.Lock(); defer r.mu.Unlock()
Bad_Lock(h) ==
    /\ strategy = HeldLock
    /\ Goto(h, "lock", "inc")
    /\ MutexFree(mu)
    /\ mu' = h
    /\ acquired' = [acquired EXCEPT ![h] = @ + 1]
    /\ UNCHANGED << auxVars, tsVars, released, strategy, counter, data, now, currentCounter, dataCopy,
                    copies, rangeMust, result, key, response, statsVars >>

\* r.counter++
Bad_Inc(h) ==
    /\ strategy = HeldLock
    /\ Goto(h, "inc", "read")
    /\ counter' = counter + 1
    /\ UNCHANGED << auxVars, tsVars, lkVars, strategy, mu, data, now, currentCounter, dataCopy, copies,
                    rangeMust, result, key, response, statsVars >>

\* currentCounter := r.counter
Bad_Read(h) ==
    /\ strategy = HeldLock
    /\ Goto(h, "read", "make")
    /\ currentCounter' = [currentCounter EXCEPT ![h] = counter]
    /\ UNCHANGED << auxVars, tsVars, lkVars, strategy, repoVars, now, dataCopy, copies, rangeMust,
                    result, key, response, statsVars >>

\* dataCopy := make(map[string]int); the range loop starts
Bad_Make(h) ==
    /\ strategy = HeldLock
    /\ Goto(h, "make", "copy")
    /\ dataCopy' = [dataCopy EXCEPT ![h] = MakeMap(h)]
    /\ rangeMust' = [rangeMust EXCEPT ![h] = DOMAIN data]
    /\ UNCHANGED << auxVars, tsVars, lkVars, strategy, repoVars, now, currentCounter, copies, result,
                    key, response, statsVars >>

\* one iteration of: for k, v := range r.data { dataCopy[k] = v }
Bad_CopyEntry(h) ==
    /\ strategy = HeldLock
    /\ pc[h] = "copy"
    /\ \E k \in (DOMAIN data) \ (DOMAIN Deref(dataCopy[h])) :
          StoreAt(dataCopy[h], k, data[k])
    /\ UNCHANGED << auxVars, tsVars, lkVars, strategy, mu, counter, now, pc, currentCounter, dataCopy,
                    rangeMust, result, key, response, statsVars >>

\* the range loop ends
Bad_CopyDone(h) ==
    /\ strategy = HeldLock
    /\ Goto(h, "copy", "sleep")
    /\ rangeMust[h] \subseteq DOMAIN Deref(dataCopy[h])
    /\ rangeMust' = [rangeMust EXCEPT ![h] = {}]
    /\ UNCHANGED << auxVars, tsVars, lkVars, strategy, repoVars, now, currentCounter, dataCopy, copies,
                    result, key, response, statsVars >>

\* time.Sleep(10 * time.Millisecond)
Bad_Sleep(h) ==
    /\ strategy = HeldLock
    /\ Goto(h, "sleep", "cpu")
    /\ UNCHANGED << auxVars, tsVars, lkVars, strategy, repoVars, now, currentCounter, dataCopy, copies,
                    rangeMust, result, key, response, statsVars >>

\* result := 0; for i := 0; i < 1000000; i++ { result += i }
Bad_Cpu(h) ==
    /\ strategy = HeldLock
    /\ Goto(h, "cpu", "write")
    /\ result' = [result EXCEPT ![h] = CpuLoop]
    /\ UNCHANGED << auxVars, tsVars, lkVars, strategy, repoVars, now, currentCounter, dataCopy, copies,
                    rangeMust, key, response, statsVars >>

\* r.data[fmt.Sprintf("request_%d", currentCounter)] = result
Bad_Write(h) ==
    /\ strategy = HeldLock
    /\ Goto(h, "write", "encode")
    /\ data' = MapStore(data, FmtKey(currentCounter[h]), result[h])
    /\ UNCHANGED << auxVars, tsVars, lkVars, strategy, mu, counter, now, currentCounter, dataCopy,
                    copies, rangeMust, result, key, response, statsVars >>

\* response := map[string]interface{}{...}; json.NewEncoder(w).Encode(response)
Bad_Encode(h) ==
    /\ strategy = HeldLock
    /\ Goto(h, "encode", "unlock")
    /\ response' = [response EXCEPT ![h] =
                      [ method |-> "bad_defer", counter |-> currentCounter[h],
                        result |-> result[h],
                        duration |-> Since(start[h], tclock) ]]
    /\ UNCHANGED << auxVars, tsVars, lkVars, strategy, repoVars, now, currentCounter, dataCopy, copies,
                    rangeMust, result, key, statsVars >>

\* the function returns: the deferred r.mu.Unlock() runs
Bad_Return(h) ==
    /\ strategy = HeldLock
    /\ Goto(h, "unlock", "done")
    /\ mu' = MutexUnlock(mu)
    /\ DropLocals(h)
    /\ released' = [released EXCEPT ![h] = @ + 1]
    /\ UNCHANGED << auxVars, tsVars, acquired, strategy, counter, data, now, currentCounter, rangeMust,
                    result, key, response, statsVars >>

BadHandler(h) ==
    \/ Bad_Start(h) \/ Bad_Lock(h) \/ Bad_Inc(h) \/ Bad_Read(h)
    \/ Bad_Make(h) \/ Bad_CopyEntry(h) \/ Bad_CopyDone(h) \/ Bad_Sleep(h)
    \/ Bad_Cpu(h) \/ Bad_Write(h) \/ Bad_Encode(h) \/ Bad_Return(h)

\* ----------------------------------------- bad_server.go: StatsHandler

\* r.mu.Lock()
BadStats_Lock ==
    /\ strategy = HeldLock
    /\ statsPc = "idle" /\ statsPc' = "read"
    /\ MutexFree(mu)
    /\ mu' = StatsProc
    /\ UNCHANGED << auxVars, tsVars, lkVars, strategy, counter, data, now, handlerVars, statsCounter,
                    statsDataSize, statsVisited, statsMust, statsOut,
                    statsBegin >>

\* stats := {"total_requests": r.counter, "data_size": len(r.data)}
BadStats_Read ==
    /\ strategy = HeldLock
    /\ statsPc = "read" /\ statsPc' = "unlock"
    /\ statsCounter' = counter
    /\ counter' = CounterAfterRead(counter)
    /\ statsDataSize' = MapLen(data)
    /\ statsBegin' = Quiescent
    /\ UNCHANGED << auxVars, tsVars, lkVars, strategy, mu, data, now, handlerVars, statsVisited,
                    statsMust, statsOut >>

\* r.mu.Unlock()
BadStats_Unlock ==
    /\ strategy = HeldLock
    /\ statsPc = "unlock" /\ statsPc' = "encode"
    /\ mu' = MutexUnlock(mu)
    /\ UNCHANGED << auxVars, tsVars, lkVars, strategy, counter, data, now, handlerVars, statsCounter,
                    statsDataSize, statsVisited, statsMust, statsOut,
                    statsBegin >>

\* json.NewEncoder(w).Encode(stats)
BadStats_Encode ==
    /\ strategy = HeldLock
    /\ statsPc = "encode" /\ statsPc' = "done"
    /\ statsOut' = [ total_requests |-> statsCounter,
                     data_size |-> statsDataSize ]
    /\ UNCHANGED << auxVars, tsVars, lkVars, strategy, repoVars, now, handlerVars, statsCounter,
                    statsDataSize, statsVisited, statsMust, statsBegin >>

BadStatsHandler ==
    \/ BadStats_Lock \/ BadStats_Read \/ BadStats_Unlock
    \/ BadStats_Encode

\* ------------------------- cmd/good_server/good_server.go: GoodHandler

\* start := time.Now()
Good_Start(h) ==
    /\ strategy = MinimalLock
    /\ Goto(h, "idle", "lock1")
    /\ start' = [start EXCEPT ![h] = tclock]
    /\ UNCHANGED << auxVars, tWaited, lkVars, strategy, repoVars, now, currentCounter, dataCopy, copies,
                    rangeMust, result, key, response, statsVars >>

\* r.mu.Lock()  (first acquisition)
Good_Lock1(h) ==
    /\ strategy = MinimalLock
    /\ Goto(h, "lock1", "inc")
    /\ MutexFree(mu)
    /\ mu' = h
    /\ acquired' = [acquired EXCEPT ![h] = @ + 1]
    /\ UNCHANGED << auxVars, tsVars, released, strategy, counter, data, now, currentCounter, dataCopy,
                    copies, rangeMust, result, key, response, statsVars >>

\* r.counter++
Good_Inc(h) ==
    /\ strategy = MinimalLock
    /\ Goto(h, "inc", "read")
    /\ counter' = counter + 1
    /\ UNCHANGED << auxVars, tsVars, lkVars, strategy, mu, data, now, currentCounter, dataCopy, copies,
                    rangeMust, result, key, response, statsVars >>

\* currentCounter := r.counter
Good_Read(h) ==
    /\ strategy = MinimalLock
    /\ Goto(h, "read", "make")
    /\ currentCounter' = [currentCounter EXCEPT ![h] = counter]
    /\ UNCHANGED << auxVars, tsVars, lkVars, strategy, repoVars, now, dataCopy, copies, rangeMust,
                    result, key, response, statsVars >>

\* dataCopy := make(map[string]*DataStruct); the range loop starts
Good_Make(h) ==
    /\ strategy = MinimalLock
    /\ Goto(h, "make", "copy")
    /\ dataCopy' = [dataCopy EXCEPT ![h] = MakeMap(h)]
    /\ rangeMust' = [rangeMust EXCEPT ![h] = DOMAIN data]
    /\ UNCHANGED << auxVars, tsVars, lkVars, strategy, repoVars, now, currentCounter, copies, result,
                    key, response, statsVars >>

\* one iteration of: for k, v := range r.data { dataCopy[k] = &DataStruct{...} }
Good_CopyEntry(h) ==
    /\ strategy = MinimalLock
    /\ pc[h] = "copy"
    /\ \E k \in (DOMAIN data) \ (DOMAIN Deref(dataCopy[h])) :
          StoreAt(dataCopy[h], k, CopyDataStruct(data[k]))
    /\ UNCHANGED << auxVars, tsVars, lkVars, strategy, mu, counter, now, pc, currentCounter, dataCopy,
                    rangeMust, result, key, response, statsVars >>

\* the range loop ends
Good_CopyDone(h) ==
    /\ strategy = MinimalLock
    /\ Goto(h, "copy", "unlock1")
    /\ rangeMust[h] \subseteq DOMAIN Deref(dataCopy[h])
    /\ rangeMust' = [rangeMust EXCEPT ![h] = {}]
    /\ UNCHANGED << auxVars, tsVars, lkVars, strategy, repoVars, now, currentCounter, dataCopy, copies,
                    result, key, response, statsVars >>

\* r.mu.Unlock()  (released right after the read)
Good_Unlock1(h) ==
    /\ strategy = MinimalLock
    /\ Goto(h, "unlock1", "sleep")
    /\ mu' = MutexUnlock(mu)
    /\ released' = [released EXCEPT ![h] = @ + 1]
    /\ UNCHANGED << auxVars, tsVars, acquired, strategy, counter, data, now, currentCounter, dataCopy,
                    copies, rangeMust, result, key, response, statsVars >>

\* time.Sleep(10 * time.Millisecond)
Good_Sleep(h) ==
    /\ strategy = MinimalLock
    /\ Goto(h, "sleep", "cpu")
    /\ UNCHANGED << auxVars, tsVars, lkVars, strategy, repoVars, now, currentCounter, dataCopy, copies,
                    rangeMust, result, key, response, statsVars >>

\* result := 0; for i := 0; i < 1000000; i++ { result += i }
\* key := fmt.Sprintf("request_%d", currentCounter)
Good_Cpu(h) ==
    /\ strategy = MinimalLock
    /\ Goto(h, "cpu", "lock2")
    /\ result' = [result EXCEPT ![h] = CpuLoop]
    /\ key' = [key EXCEPT ![h] = FmtKey(currentCounter[h])]
    /\ UNCHANGED << auxVars, tsVars, lkVars, strategy, repoVars, now, currentCounter, dataCopy, copies,
                    rangeMust, response, statsVars >>

\* r.mu.Lock()  (second acquisition)
Good_Lock2(h) ==
    /\ strategy = MinimalLock
    /\ Goto(h, "lock2", "write")
    /\ MutexFree(mu)
    /\ mu' = h
    /\ acquired' = [acquired EXCEPT ![h] = @ + 1]
    /\ UNCHANGED << auxVars, tsVars, released, strategy, counter, data, now, currentCounter, dataCopy,
                    copies, rangeMust, result, key, response, statsVars >>

\* r.data[key] = &DataStruct{...}
Good_Write(h) ==
    /\ strategy = MinimalLock
    /\ Goto(h, "write", "unlock2")
    /\ \E t \in TimeNow(now) :
          /\ now' = t
          /\ data' = MapStore(data, key[h],
                        NewDataStruct(key[h], currentCounter[h], result[h], t))
    /\ UNCHANGED << auxVars, tsVars, lkVars, strategy, mu, counter, currentCounter, dataCopy, copies,
                    rangeMust, result, key, response, statsVars >>

\* r.mu.Unlock()  (released right after the write)
Good_Unlock2(h) ==
    /\ strategy = MinimalLock
    /\ Goto(h, "unlock2", "encode")
    /\ mu' = MutexUnlock(mu)
    /\ released' = [released EXCEPT ![h] = @ + 1]
    /\ UNCHANGED << auxVars, tsVars, acquired, strategy, counter, data, now, currentCounter, dataCopy,
                    copies, rangeMust, result, key, response, statsVars >>

\* response := map[string]interface{}{...}; json.NewEncoder(w).Encode(response)
\* and the function returns
Good_Encode(h) ==
    /\ strategy = MinimalLock
    /\ Goto(h, "encode", "done")
    /\ response' = [response EXCEPT ![h] =
                      [ method |-> "good_no_defer",
                        counter |-> currentCounter[h], result |-> result[h],
                        duration |-> Since(start[h], tclock) ]]
    /\ DropLocals(h)
    /\ UNCHANGED << auxVars, tsVars, lkVars, strategy, repoVars, now, currentCounter, rangeMust, result,
                    key, statsVars >>

GoodHandler(h) ==
    \/ Good_Start(h) \/ Good_Lock1(h) \/ Good_Inc(h) \/ Good_Read(h)
    \/ Good_Make(h) \/ Good_CopyEntry(h) \/ Good_CopyDone(h)
    \/ Good_Unlock1(h) \/ Good_Sleep(h) \/ Good_Cpu(h)
    \/ Good_Lock2(h) \/ Good_Write(h) \/ Good_Unlock2(h) \/ Good_Encode(h)

\* ------------------------ cmd/good_server/good_server.go: StatsHandler

\* r.mu.Lock()
GoodStats_Lock ==
    /\ strategy = MinimalLock
    /\ statsPc = "idle" /\ statsPc' = "read"
    /\ MutexFree(mu)
    /\ mu' = StatsProc
    /\ UNCHANGED << auxVars, tsVars, lkVars, strategy, counter, data, now, handlerVars, statsCounter,
                    statsDataSize, statsVisited, statsMust, statsOut,
                    statsBegin >>

\* stats := {"total_requests": r.counter, "data_size": len(r.data)}
GoodStats_Read ==
    /\ strategy = MinimalLock
    /\ statsPc = "read" /\ statsPc' = "unlock"
    /\ statsCounter' = counter
    /\ counter' = CounterAfterRead(counter)
    /\ statsDataSize' = MapLen(data)
    /\ statsBegin' = Quiescent
    /\ UNCHANGED << auxVars, tsVars, lkVars, strategy, mu, data, now, handlerVars, statsVisited,
                    statsMust, statsOut >>

\* r.mu.Unlock()
GoodStats_Unlock ==
    /\ strategy = MinimalLock
    /\ statsPc = "unlock" /\ statsPc' = "encode"
    /\ mu' = MutexUnlock(mu)
    /\ UNCHANGED << auxVars, tsVars, lkVars, strategy, counter, data, now, handlerVars, statsCounter,
                    statsDataSize, statsVisited, statsMust, statsOut,
                    statsBegin >>

\* json.NewEncoder(w).Encode(stats)
GoodStats_Encode ==
    /\ strategy = MinimalLock
    /\ statsPc = "encode" /\ statsPc' = "done"
    /\ statsOut' = [ total_requests |-> statsCounter,
                     data_size |-> statsDataSize ]
    /\ UNCHANGED << auxVars, tsVars, lkVars, strategy, repoVars, now, handlerVars, statsCounter,
                    statsDataSize, statsVisited, statsMust, statsBegin >>

GoodStatsHandler ==
    \/ GoodStats_Lock \/ GoodStats_Read
    \/ GoodStats_Unlock \/ GoodStats_Encode

\* ------------------------------------------------------------ sync.Map
\* Range(f) calls f for the keys of the map.  It is no snapshot: every key
\* present when Range begins is visited, a key stored while Range runs may
\* or may not be visited, and no key is visited twice.

\* the keys a Range that begins on m has to visit
RangeStartKeys(m) == DOMAIN m

\* a Range that may call the function on a key it has visited
RangeRevisits(m, visited) == DOMAIN m

\* the keys a running Range may visit next
RangeNextKeys(m, visited) == (DOMAIN m) \ visited

\* a running Range may return
RangeMayEnd(must, visited) == must \subseteq visited

\* a Store that waits until no Range is running
StoreWaitsForRange(ranging) == ranging = {}

\* Store takes no lock that a running Range holds: it is always admitted
StoreAdmitted(ranging) == TRUE

\* the goroutines inside a sync.Map.Range call
Ranging ==
    { h \in Handlers : pc[h] = "range" } \cup
    (IF statsPc = "range" THEN {StatsProc} ELSE {})

\* ------------------------------------- syncmap server: SyncMapHandler

\* start := time.Now()
Sync_Start(h) ==
    /\ strategy = LockFree
    /\ Goto(h, "idle", "add")
    /\ start' = [start EXCEPT ![h] = tclock]
    /\ UNCHANGED << auxVars, tWaited, lkVars, strategy, repoVars, now, currentCounter, dataCopy, copies,
                    rangeMust, result, key, response, statsVars >>

\* currentCounter := atomic.AddInt64(&r.counter, 1)
Sync_Add(h) ==
    /\ strategy = LockFree
    /\ Goto(h, "add", "make")
    /\ counter' = counter + 1
    /\ currentCounter' = [currentCounter EXCEPT ![h] = AddInt64(counter, 1)]
    /\ UNCHANGED << auxVars, tsVars, lkVars, strategy, mu, data, now, dataCopy, copies, rangeMust,
                    result, key, response, statsVars >>

\* dataCopy := make(map[string]*DataStruct); r.data.Range(...) begins
Sync_Make(h) ==
    /\ strategy = LockFree
    /\ Goto(h, "make", "range")
    /\ dataCopy' = [dataCopy EXCEPT ![h] = MakeMap(h)]
    /\ rangeMust' = [rangeMust EXCEPT ![h] = RangeStartKeys(data)]
    /\ UNCHANGED << auxVars, tsVars, lkVars, strategy, repoVars, now, currentCounter, copies, result,
                    key, response, statsVars >>

\* Range calls the function on one entry: dataCopy[key] = &DataStruct{...}
Sync_RangeEntry(h) ==
    /\ strategy = LockFree
    /\ pc[h] = "range"
    /\ \E k \in RangeNextKeys(data, DOMAIN Deref(dataCopy[h])) :
          StoreAt(dataCopy[h], k, CopyDataStruct(data[k]))
    /\ UNCHANGED << auxVars, tsVars, lkVars, strategy, mu, counter, now, pc, currentCounter, dataCopy,
                    rangeMust, result, key, response, statsVars >>

\* Range returns
Sync_RangeDone(h) ==
    /\ strategy = LockFree
    /\ Goto(h, "range", "sleep")
    /\ RangeMayEnd(rangeMust[h], DOMAIN Deref(dataCopy[h]))
    /\ rangeMust' = [rangeMust EXCEPT ![h] = {}]
    /\ UNCHANGED << auxVars, tsVars, lkVars, strategy, repoVars, now, currentCounter, dataCopy, copies,
                    result, key, response, statsVars >>

\* time.Sleep(10 * time.Millisecond)
Sync_Sleep(h) ==
    /\ strategy = LockFree
    /\ Goto(h, "sleep", "cpu")
    /\ UNCHANGED << auxVars, tsVars, lkVars, strategy, repoVars, now, currentCounter, dataCopy, copies,
                    rangeMust, result, key, response, statsVars >>

\* result := 0; for i := 0; i < 1000000; i++ { result += i }
\* key := fmt.Sprintf("request_%d", currentCounter)
Sync_Cpu(h) ==
    /\ strategy = LockFree
    /\ Goto(h, "cpu", "store")
    /\ result' = [result EXCEPT ![h] = CpuLoop]
    /\ key' = [key EXCEPT ![h] = FmtKey(currentCounter[h])]
    /\ UNCHANGED << auxVars, tsVars, lkVars, strategy, repoVars, now, currentCounter, dataCopy, copies,
                    rangeMust, response, statsVars >>

\* r.data.Store(key, &DataStruct{...})
Sync_Store(h) ==
    /\ strategy = LockFree
    /\ Goto(h, "store", "encode")
    /\ StoreAdmitted(Ranging)
    /\ \E t \in TimeNow(now) :
          /\ now' = t
          /\ data' = MapStore(data, key[h],
                        NewDataStruct(key[h], currentCounter[h], result[h], t))
    /\ UNCHANGED << auxVars, tsVars, lkVars, strategy, mu, counter, currentCounter, dataCopy, copies,
                    rangeMust, result, key, response, statsVars >>

\* response := map[string]interface{}{...}; json.NewEncoder(w).Encode(response)
\* and the function returns
Sync_Encode(h) ==
    /\ strategy = LockFree
    /\ Goto(h, "encode", "done")
    /\ response' = [response EXCEPT ![h] =
                      [ method |-> "sync_map", counter |-> currentCounter[h],
                        result |-> result[h],
                        duration |-> Since(start[h], tclock) ]]
    /\ DropLocals(h)
    /\ UNCHANGED << auxVars, tsVars, lkVars, strategy, repoVars, now, currentCounter, rangeMust, result,
                    key, statsVars >>

SyncMapHandler(h) ==
    \/ Sync_Start(h) \/ Sync_Add(h) \/ Sync_Make(h) \/ Sync_RangeEntry(h)
    \/ Sync_RangeDone(h) \/ Sync_Sleep(h) \/ Sync_Cpu(h)
    \/ Sync_Store(h) \/ Sync_Encode(h)

\* ---------------------------------------- syncmap server: StatsHandler

\* counter := atomic.LoadInt64(&r.counter)
SyncStats_Load ==
    /\ strategy = LockFree
    /\ statsPc = "idle" /\ statsPc' = "size"
    /\ statsCounter' = counter
    /\ counter' = CounterAfterRead(counter)
    /\ statsBegin' = Quiescent
    /\ UNCHANGED << auxVars, tsVars, lkVars, strategy, mu, data, now, handlerVars, statsDataSize,
                    statsVisited, statsMust, statsOut >>

\* dataSize := 0; r.data.Range(...) begins
SyncStats_RangeBegin ==
    /\ strategy = LockFree
    /\ statsPc = "size" /\ statsPc' = "range"
    /\ statsDataSize' = 0
    /\ statsVisited' = {}
    /\ statsMust' = RangeStartKeys(data)
    /\ UNCHANGED << auxVars, tsVars, lkVars, strategy, repoVars, now, handlerVars, statsCounter,
                    statsOut, statsBegin >>

\* Range calls the function on one entry: dataSize++
SyncStats_RangeEntry ==
    /\ strategy = LockFree
    /\ statsPc = "range"
    /\ \E k \in RangeNextKeys(data, statsVisited) :
          statsVisited' = statsVisited \cup {k}
    /\ statsDataSize' = statsDataSize + 1
    /\ UNCHANGED << auxVars, tsVars, lkVars, strategy, repoVars, now, handlerVars, statsPc,
                    statsCounter, statsMust, statsOut, statsBegin >>

\* Range returns
SyncStats_RangeDone ==
    /\ strategy = LockFree
    /\ statsPc = "range" /\ statsPc' = "encode"
    /\ RangeMayEnd(statsMust, statsVisited)
    /\ statsVisited' = {}
    /\ statsMust' = {}
    /\ UNCHANGED << auxVars, tsVars, lkVars, strategy, repoVars, now, handlerVars, statsCounter,
                    statsDataSize, statsOut, statsBegin >>

\* stats := {...}; json.NewEncoder(w).Encode(stats)
SyncStats_Encode ==
    /\ strategy = LockFree
    /\ statsPc = "encode" /\ statsPc' = "done"
    /\ statsOut' = [ total_requests |-> statsCounter,
                     data_size |-> statsDataSize ]
    /\ UNCHANGED << auxVars, tsVars, lkVars, strategy, repoVars, now, handlerVars, statsCounter,
                    statsDataSize, statsVisited, statsMust, statsBegin >>

SyncStatsHandler ==
    \/ SyncStats_Load \/ SyncStats_RangeBegin
    \/ SyncStats_RangeEntry \/ SyncStats_RangeDone \/ SyncStats_Encode

\* ----------------------------------------------------------- behaviours

Next ==
    \/ \E h \in Handlers : BadHandler(h)
    \/ BadStatsHandler
    \/ \E h \in Handlers : GoodHandler(h)
    \/ GoodStatsHandler
    \/ \E h \in Handlers : SyncMapHandler(h)
    \/ SyncStatsHandler

Spec == Init /\ [][Next]_vars

\* ----------------------------------------------------- state functions

\* the handlers that have been assigned their request id
HasId(h) == pc[h] \notin {"idle", "lock", "lock1", "inc", "read", "add"}
Allocated == { h \in Handlers : HasId(h) }
Ids == { currentCounter[h] : h \in Allocated }

\* a handler between r.counter++ and currentCounter := r.counter
MidAllocation == { h \in Handlers : pc[h] = "read" }

\* BadHandler between r.mu.Lock() and its return
InBody(h) ==
    pc[h] \in {"inc", "read", "make", "copy", "sleep", "cpu", "write",
               "encode", "unlock"}

\* the sleep and the CPU loop
InHeavyWork(h) == pc[h] \in {"sleep", "cpu"}

\* GoodHandler's two critical sections
InFirstSection(h) == pc[h] \in {"inc", "read", "make", "copy", "unlock1"}
InSecondSection(h) == pc[h] \in {"write", "unlock2"}

\* the handler has finished taking its snapshot and has not returned
SnapshotTaken(h) ==
    pc[h] \in {"sleep", "cpu", "write", "lock2", "unlock2", "store",
               "encode", "unlock"}
Snapshot(h) == Deref(dataCopy[h])

\* the handler's final write has been made
WriteDone(h) ==
    \/ strategy = HeldLock /\ pc[h] \in {"encode", "unlock", "done"}
    \/ strategy = MinimalLock /\ pc[h] \in {"unlock2", "encode", "done"}
    \/ strategy = LockFree /\ pc[h] \in {"encode", "done"}

\* ---------------------------------------------------------------- claims

\* C1: under each strategy and in every interleaving, no two handler
\* invocations are assigned the same request id.
C1_UniqueIds ==
    \A h1, h2 \in Allocated :
        h1 # h2 => currentCounter[h1] # currentCounter[h2]

\* two requests in flight at once, both with an id
C1_Witness ==
    \E h1, h2 \in Allocated :
        h1 # h2 /\ pc[h1] # "done" /\ pc[h2] # "done"

\* C2: the counter never decreases; every id handed out is greater than all
\* ids handed out before; and when n allocations have been made the ids
\* handed out are exactly 1..n and the counter is n (n + 1 while a handler
\* of a mutex server is between its increment and its read).
C2_CounterCountsAllocations ==
    /\ [](/\ Ids = 1 .. Cardinality(Allocated)
          /\ counter = Cardinality(Allocated) + Cardinality(MidAllocation))
    /\ [][/\ counter' >= counter
          /\ \A h \in Handlers :
                ~HasId(h) /\ HasId(h)' =>
                    \A g \in Allocated : currentCounter'[h] > currentCounter[g]
         ]_vars

\* every request has its id, allocated while others were in flight
C2_Witness ==
    /\ Cardinality(Allocated) = NumHandlers
    /\ counter = NumHandlers
    /\ \A h \in Handlers : pc[h] # "done"

\* C3: under HeldLock at most one handler invocation is between its lock
\* acquisition (hence its id allocation) and its return.
C3_HeldLockBodyExclusive ==
    strategy = HeldLock =>
        Cardinality({ h \in Handlers : InBody(h) }) <= 1

\* one handler in its CPU loop while another waits for the mutex
C3_Witness ==
    /\ strategy = HeldLock
    /\ \E h1, h2 \in Handlers : pc[h1] = "cpu" /\ pc[h2] = "lock"

\* C4: under MinimalLock a handler in its heavy work never holds the mutex;
\* the holder, if any, is a handler in its first or second critical section
\* or the stats query.
C4_MinimalLockHolder ==
    strategy = MinimalLock =>
        /\ \A h \in Handlers : InHeavyWork(h) => mu # h
        /\ mu # NoHolder =>
              \/ mu \in Handlers /\ (InFirstSection(mu) \/ InSecondSection(mu))
              \/ mu = StatsProc /\ statsPc \in {"read", "unlock"}

\* a handler in heavy work while another handler holds the mutex
C4_Witness ==
    /\ strategy = MinimalLock
    /\ \E h1, h2 \in Handlers :
          InHeavyWork(h1) /\ mu = h2 /\ InSecondSection(h2)

\* C5: under HeldLock no two handlers are in heavy work at the same time
\* (under MinimalLock all of them can be: C5_Witness).
C5_HeldLockNoOverlap ==
    strategy = HeldLock =>
        Cardinality({ h \in Handlers : InHeavyWork(h) }) <= 1

\* under MinimalLock all handlers are in heavy work at the same time
C5_Witness ==
    /\ strategy = MinimalLock
    /\ NumHandlers >= 2
    /\ \A h \in Handlers : InHeavyWork(h)

\* C6: once a handler has finished taking its snapshot, no step of any
\* goroutine changes the key set or a value of that snapshot.
C6_CopyIsolation ==
    [][\A h \in Handlers :
          SnapshotTaken(h) /\ SnapshotTaken(h)' => Snapshot(h)' = Snapshot(h)
      ]_vars

\* a non-empty snapshot, and a key written to the repository after it
C6_Witness ==
    \E h \in Handlers :
        /\ SnapshotTaken(h)
        /\ Snapshot(h) # EmptyMap
        /\ (DOMAIN data) \ (DOMAIN Snapshot(h)) # {}

\* C7: a key written to the repository map is present in every later state.
C7_NoEviction ==
    [][(DOMAIN data) \subseteq (DOMAIN data')]_vars

\* every request has written its key, and all of them are present
C7_Witness ==
    /\ \A h \in Handlers : WriteDone(h)
    /\ MapLen(data) = NumHandlers
    /\ NumHandlers >= 2

\* C8: a stats query that runs while N requests have completed and none is
\* in flight answers total_requests = N and data_size = N.
C8_StatsAfterCompletion ==
    (statsPc = "done" /\ statsBegin >= 0 /\ Quiescent = statsBegin) =>
        statsOut = [ total_requests |-> statsBegin, data_size |-> statsBegin ]

\* the stats query ran after all requests had completed
C8_Witness ==
    /\ statsPc = "done"
    /\ statsBegin = NumHandlers
    /\ Quiescent = NumHandlers

\* C9: under LockFree every unfinished handler, and the unfinished stats
\* query, has its next step enabled in every reachable state.
C9_LockFreeNeverBlocked ==
    strategy = LockFree =>
        /\ \A h \in Handlers : pc[h] # "done" => ENABLED SyncMapHandler(h)
        /\ statsPc # "done" => ENABLED SyncStatsHandler

\* a handler about to Store while a handler and the stats query are inside
\* Range
C9_Witness ==
    /\ strategy = LockFree
    /\ statsPc = "range"
    /\ \E h1, h2 \in Handlers : pc[h1] = "store" /\ pc[h2] = "range"

\* C10: under MinimalLock and LockFree every record a snapshot holds, also
\* while the snapshot is being taken, has the five fields of one completed
\* write: the key, name, active flag, counter and timestamp that one handler
\* stored.
C10_NoPartialRecord ==
    strategy \in {MinimalLock, LockFree} =>
        \A h \in Handlers : \A k \in DOMAIN copies[h] :
            \E w \in Handlers :
                /\ WriteDone(w)
                /\ key[w] = k
                /\ k \in DOMAIN data
                /\ copies[h][k] = data[k]
                /\ copies[h][k].Identifier = FmtKey(currentCounter[w])
                /\ copies[h][k].Name = FmtName(currentCounter[w])
                /\ copies[h][k].IsActive = TRUE
                /\ copies[h][k].Counter = result[w]
                /\ copies[h][k].LastModified \in 0 .. now

\* a Range that copied a record stored after the Range had begun
C10_Witness ==
    /\ strategy = LockFree
    /\ \E h \in Handlers :
          /\ pc[h] = "range"
          /\ \E k \in DOMAIN copies[h] : k \notin rangeMust[h]

\* C12 as stated: no handler of any strategy writes its response while it
\* holds the repository mutex.
C12_NoEncodeUnderLock ==
    [][/\ \A h \in Handlers : response'[h] # response[h] => mu # h
       /\ statsOut' # statsOut => mu # StatsProc
      ]_vars

\* C12 (amended): GoodHandler, SyncMapHandler and the stats query of every
\* server write their response while they do not hold the mutex; BadHandler
\* writes its response while it holds the mutex (the deferred Unlock runs
\* after the Encode).
C12_EncodeUnderLockOnlyIfHeld ==
    [][/\ \A h \in Handlers :
             response'[h] # response[h] => (mu = h <=> strategy = HeldLock)
       /\ statsOut' # statsOut => mu # StatsProc
      ]_vars

\* a GoodHandler has written its response while another handler holds the
\* mutex
C12_Witness ==
    /\ strategy = MinimalLock
    /\ \E h1, h2 \in Handlers :
          /\ response[h1] # NoResponse
          /\ mu = h2 /\ h1 # h2

\* --------------------------------------------- one client, one at a time
\* benchmarkServer with concurrency 1: the single worker calls client.Get
\* again only after the previous call has returned, so a request reaches
\* the server only when no other request is being served.  The servers
\* compared are the two mutex servers.

StatsInFlight == statsPc \notin {"idle", "done"}

\* a request may arrive
NoRequestInFlight == InFlight = {} /\ ~StatsInFlight

SeqInit == Init /\ strategy \in {HeldLock, MinimalLock}

SeqBad(h) == (pc[h] = "idle" => NoRequestInFlight) /\ BadHandler(h)

SeqGood(h) == (pc[h] = "idle" => NoRequestInFlight) /\ GoodHandler(h)

SeqBadStats == (statsPc = "idle" => NoRequestInFlight) /\ BadStatsHandler

SeqGoodStats == (statsPc = "idle" => NoRequestInFlight) /\ GoodStatsHandler

SeqNext ==
    \/ \E h \in Handlers : SeqBad(h)
    \/ \E h \in Handlers : SeqGood(h)
    \/ SeqBadStats
    \/ SeqGoodStats

SpecSeq == SeqInit /\ [][SeqNext]_vars

\* C15: with one client issuing its requests one after another, under
\* HeldLock and under MinimalLock alike no request waits for the mutex, the
\* k-th request gets id k and the result of the CPU loop, and after k
\* requests the stored keys are request_1 .. request_k.
C15_SequentialEquivalence ==
    /\ \A h \in Handlers :
          pc[h] \in {"lock", "lock1", "lock2"} => MutexFree(mu)
    /\ \A h \in Done :
          /\ response[h].counter = currentCounter[h]
          /\ response[h].result = CpuLoop
    /\ InFlight = {} =>
          /\ { response[h].counter : h \in Done } = 1 .. Cardinality(Done)
          /\ DOMAIN data = { FmtKey(i) : i \in 1 .. Cardinality(Done) }

\* every request of the client has been answered
C15_Witness ==
    /\ NumHandlers >= 2
    /\ Done = Handlers
    /\ statsPc = "done"

\* ------------------------------------------------------ timed behaviours
\* The servers with a clock: the heavy work of a request (time.Sleep and the
\* CPU loop) takes WorkTicks ticks, every other step takes no time.  A
\* handler leaves its heavy work only when its ticks are spent; a tick
\* counts for every handler that is in its heavy work.

\* long enough for HeldLock to serve every request
MaxTime == NumHandlers * WorkTicks

TimedInit ==
    /\ ServerInit
    /\ strategy \in {HeldLock, MinimalLock}
    /\ tclock = 0
    /\ tleft = [h \in Handlers |-> WorkTicks]
    /\ StoreIdle
    /\ LoadIdle

\* one tick of the clock.  Time is counted in units of the heavy work: it
\* passes while some handler is in its sleep, and every other step of a
\* handler takes no time
TimedTick ==
    /\ tclock < MaxTime
    /\ \E h \in Handlers : pc[h] = "sleep" /\ tleft[h] > 0
    /\ tclock' = tclock + 1
    /\ tleft' = [h \in Handlers |->
                   IF pc[h] = "sleep" /\ tleft[h] > 0
                   THEN tleft[h] - 1 ELSE tleft[h]]
    /\ tWaited' = [h \in Handlers |->
                     IF pc[h] \in {"lock", "lock1"} /\ ~ MutexFree(mu)
                     THEN tWaited[h] + 1 ELSE tWaited[h]]
    /\ UNCHANGED << serverVars, start, stVars, lgVars >>

\* the heavy work is over
WorkSpent(h) == pc[h] = "sleep" => tleft[h] = 0

TimedBad(h) == WorkSpent(h) /\ BadHandler(h)

TimedGood(h) == WorkSpent(h) /\ GoodHandler(h)

TimedNext ==
    \/ TimedTick
    \/ \E h \in Handlers : TimedBad(h)
    \/ \E h \in Handlers : TimedGood(h)

SpecTimed == TimedInit /\ [][TimedNext]_vars

\* C13: when the heavy work takes WorkTicks ticks, under HeldLock at most
\* one request completes per WorkTicks ticks whatever the number of
\* concurrent requests; under MinimalLock no request completes before
\* WorkTicks ticks, and all concurrent requests can complete within them
\* (C13_Witness).
C13_HeldLockThroughput ==
    /\ strategy = HeldLock => WorkTicks * Cardinality(Done) <= tclock
    /\ strategy = MinimalLock => (Done # {} => tclock >= WorkTicks)

\* under MinimalLock all requests have completed after WorkTicks ticks
C13_Witness ==
    /\ strategy = MinimalLock
    /\ NumHandlers >= 2
    /\ tclock = WorkTicks
    /\ Done = Handlers

\* ----------------------------------------------- Store on the same key
\* r.data.Store(key, &DataStruct{...}) with the key an input: goroutines
\* store on one sync.Map under keys drawn from a small set, so that two of
\* them use the same key.  (In the servers the key is made from the
\* request id, and two requests never have the same.)

StoreKeys == { FmtKey(i) : i \in 1 .. NumKeys }

\* the record goroutine w stores
WriterRecord(w) == NewDataStruct(swkey[w], w, CpuLoop, 0)

StoreInit ==
    /\ ServerInit
    /\ strategy = LockFree
    /\ TimedIdle
    /\ smap = EmptyMap
    /\ swpc = [w \in Writers |-> "store"]
    /\ swkey \in [Writers -> StoreKeys]
    /\ slast = EmptyMap
    /\ sread = NoRead
    /\ LoadIdle

\* r.data.Store(key, &DataStruct{...}) returns
Store_Store(w) ==
    /\ swpc[w] = "store"
    /\ swpc' = [swpc EXCEPT ![w] = "done"]
    /\ smap' = MapStore(smap, swkey[w], WriterRecord(w))
    /\ slast' = [ k \in (DOMAIN slast) \cup {swkey[w]} |->
                    IF k = swkey[w] THEN WriterRecord(w) ELSE slast[k] ]
    /\ UNCHANGED << serverVars, tsVars, tmVars, lgVars, swkey, sread >>

\* a read of key k after every Store has returned
Store_Load(k) ==
    /\ \A w \in Writers : swpc[w] = "done"
    /\ sread = NoRead
    /\ k \in DOMAIN smap
    /\ sread' = [ key |-> k, value |-> smap[k] ]
    /\ UNCHANGED << serverVars, tsVars, tmVars, lgVars, smap, swpc, swkey, slast >>

StoreNext ==
    \/ \E w \in Writers : Store_Store(w)
    \/ \E k \in StoreKeys : Store_Load(k)

SpecStore == StoreInit /\ [][StoreNext]_vars

lgOther == << serverVars, tsVars, tmVars, stVars >>

\* requests / concurrency with the ceiling in place of Go's quotient
PerGoroutineCeil(requests, concurrency) ==
    (requests + concurrency - 1) \div concurrency

\* requestsPerGoroutine := requests / concurrency, both operands positive or
\* zero, where Go's truncated quotient is the floor
PerGoroutine(requests, concurrency) ==
    requests \div concurrency

\* a loop condition that admits i = concurrency
SpawnMoreInclusive(i, concurrency) ==
    i <= concurrency

\* the condition i < concurrency of the loop that starts the workers
SpawnMore(i, concurrency) ==
    i < concurrency

\* a Wait that returns whatever the counter is
WaitGroupIgnored(wg) ==
    TRUE

\* wg.Wait() returns when the counter of the WaitGroup is zero
WaitGroupZero(wg) ==
    wg = 0

\* a loop that does not advance
LoopRetry(j) ==
    j

\* j++ of the worker's loop, reached after a success, a failure and continue
LoopNext(j) ==
    j + 1

\* an unbuffered channel
ChanUnbuffered(totalRequests) ==
    0

\* the capacity of latencies := make(chan time.Duration, totalRequests)
ChanCap(totalRequests) ==
    totalRequests

\* the mean of sum over n as the quotient sum / n of two floats
Quotient(sum, n) ==
    [ num |-> sum, den |-> n ]

\* the float 0
Zero == Quotient(0, 1)

\* the division without the test of count
MeanUnchecked(totalLatency, count) ==
    Quotient(totalLatency, count)

\* if count == 0 { return 0 };
\* return float64(totalLatency.Milliseconds()) / float64(count)
MeanLatency(totalLatency, count) ==
    IF count = 0 THEN Zero ELSE Quotient(totalLatency, count)

Spawned == { w \in WorkerIds : lgW[w] # "none" }
InFlightRequests == { w \in WorkerIds : lgW[w] = "get" }

LoadInit ==
    /\ ServerInit
    /\ strategy = HeldLock
    /\ TimedIdle
    /\ StoreIdle
    /\ lgFn \in {"benchmarkServer", "measureAverageLatency"}
    /\ lgConcurrency \in 1 .. MaxConcurrency
    /\ lgRequests \in (IF lgFn = "benchmarkServer" THEN 1 ELSE 0) .. MaxRequests
    /\ lgMain = "start"
    /\ lgPerG = 0
    /\ lgI = 0
    /\ lgWg = 0
    /\ lgW = [w \in WorkerIds |-> "none"]
    /\ lgJ = [w \in WorkerIds |-> 0]
    /\ lgChan = << >>
    /\ lgTotalLatency = 0
    /\ lgCount = 0
    /\ lgResult = NoResult
    /\ lgErrors = 0
    /\ lgAttempts = [w \in WorkerIds |-> 0]
    /\ lgOk = 0
    /\ lgFailed = 0
    /\ lgClock = 0
    /\ lgStart = 0
    /\ lgReqStart = [w \in WorkerIds |-> 0]
    /\ lgSumDur = 0
    /\ lgSpawnAt = Never
    /\ lgDoneAt = Never

\* wg.Add(1); go func() {...}(); i++ : worker i + 1 starts at its loop
Spawn ==
    /\ lgMain = "spawn"
    /\ SpawnMore(lgI, lgConcurrency)
    /\ lgI + 1 \in WorkerIds
    /\ lgWg' = lgWg + 1
    /\ lgW' = [lgW EXCEPT ![lgI + 1] = "loop"]
    /\ lgI' = lgI + 1
    /\ lgSpawnAt' = IF lgSpawnAt = Never THEN lgClock ELSE lgSpawnAt
    /\ UNCHANGED << lgOther, lgClock, lgStart, lgSumDur, lgDoneAt, lgReqStart, lgIn, lgMain, lgPerG, lgTotalLatency, lgCount,
                    lgResult, lgJ, lgAttempts, lgChan, lgErrors, lgOk,
                    lgFailed >>

\* j < requestsPerGoroutine; client.Get(url) is sent
Issue(w) ==
    /\ lgW[w] = "loop"
    /\ lgJ[w] < lgPerG
    /\ lgW' = [lgW EXCEPT ![w] = "get"]
    /\ lgAttempts' = [lgAttempts EXCEPT ![w] = @ + 1]
    /\ UNCHANGED << lgOther, lgTime, lgIn, lgMainVars, lgJ, lgWg, lgChan, lgErrors,
                    lgOk, lgFailed >>

\* the loop ends; the deferred wg.Done() runs
WorkerDone(w) ==
    /\ lgW[w] = "loop"
    /\ ~ (lgJ[w] < lgPerG)
    /\ lgW' = [lgW EXCEPT ![w] = "done"]
    /\ lgWg' = lgWg - 1
    /\ lgDoneAt' = lgClock
    /\ UNCHANGED << lgOther, lgClock, lgStart, lgSumDur, lgSpawnAt, lgReqStart, lgIn, lgMainVars, lgJ, lgAttempts, lgChan,
                    lgErrors, lgOk, lgFailed >>

(* measureAverageLatency *)

\* latencies := make(chan time.Duration, totalRequests);
\* requestsPerGoroutine := totalRequests / concurrency
Measure_Setup ==
    /\ lgFn = "measureAverageLatency"
    /\ lgMain = "start"
    /\ lgPerG' = PerGoroutine(lgRequests, lgConcurrency)
    /\ lgMain' = "spawn"
    /\ UNCHANGED << lgOther, lgTime, lgReqStart, lgIn, lgI, lgTotalLatency, lgCount, lgResult,
                    lgWorkVars, lgWg, lgChan, lgErrors, lgOk, lgFailed >>

Measure_Spawn ==
    /\ lgFn = "measureAverageLatency"
    /\ Spawn

\* start := time.Now(); resp, err := client.Get(url)
Measure_Issue(w) ==
    /\ lgFn = "measureAverageLatency"
    /\ lgReqStart' = [lgReqStart EXCEPT ![w] = lgClock]
    /\ Issue(w)

\* err == nil; io.ReadAll(resp.Body); resp.Body.Close()
Measure_Ok(w) ==
    /\ lgFn = "measureAverageLatency"
    /\ lgW[w] = "get"
    /\ lgW' = [lgW EXCEPT ![w] = "send"]
    /\ lgOk' = lgOk + 1
    /\ UNCHANGED << lgOther, lgTime, lgReqStart, lgIn, lgMainVars, lgJ, lgAttempts, lgWg, lgChan,
                    lgErrors, lgFailed >>

\* latencies <- time.Since(start), which waits while the buffer is full; j++
Measure_Send(w) ==
    /\ lgFn = "measureAverageLatency"
    /\ lgW[w] = "send"
    /\ Len(lgChan) < ChanCap(lgRequests)
    /\ lgChan' = Append(lgChan, Since(lgReqStart[w], lgClock))
    /\ lgJ' = [lgJ EXCEPT ![w] = LoopNext(@)]
    /\ lgW' = [lgW EXCEPT ![w] = "loop"]
    /\ UNCHANGED << lgOther, lgTime, lgReqStart, lgIn, lgMainVars, lgAttempts, lgWg, lgErrors,
                    lgOk, lgFailed >>

\* err != nil: the body of the if is skipped; j++
Measure_Err(w) ==
    /\ lgFn = "measureAverageLatency"
    /\ lgW[w] = "get"
    /\ lgFailed' = lgFailed + 1
    /\ lgJ' = [lgJ EXCEPT ![w] = LoopNext(@)]
    /\ lgW' = [lgW EXCEPT ![w] = "loop"]
    /\ UNCHANGED << lgOther, lgTime, lgReqStart, lgIn, lgMainVars, lgAttempts, lgWg, lgChan,
                    lgErrors, lgOk >>

Measure_WorkerDone(w) ==
    /\ lgFn = "measureAverageLatency"
    /\ WorkerDone(w)

\* the loop over i has ended; wg.Wait(); close(latencies);
\* var totalLatency time.Duration; count := 0
Measure_Wait ==
    /\ lgFn = "measureAverageLatency"
    /\ lgMain = "spawn"
    /\ ~ SpawnMore(lgI, lgConcurrency)
    /\ WaitGroupZero(lgWg)
    /\ lgMain' = "drain"
    /\ lgTotalLatency' = 0
    /\ lgCount' = 0
    /\ UNCHANGED << lgOther, lgTime, lgReqStart, lgIn, lgPerG, lgI, lgResult, lgWorkVars, lgWg,
                    lgChan, lgErrors, lgOk, lgFailed >>

\* one round of for latency := range latencies
Measure_Drain ==
    /\ lgFn = "measureAverageLatency"
    /\ lgMain = "drain"
    /\ lgChan # << >>
    /\ lgTotalLatency' = lgTotalLatency + Head(lgChan)
    /\ lgCount' = lgCount + 1
    /\ lgChan' = Tail(lgChan)
    /\ UNCHANGED << lgOther, lgTime, lgReqStart, lgIn, lgMain, lgPerG, lgI, lgResult, lgWorkVars,
                    lgWg, lgErrors, lgOk, lgFailed >>

\* the closed channel is empty; if count == 0 { return 0 };
\* return float64(totalLatency.Milliseconds()) / float64(count)
Measure_Return ==
    /\ lgFn = "measureAverageLatency"
    /\ lgMain = "drain"
    /\ lgChan = << >>
    /\ lgResult' = [ mean |-> MeanLatency(lgTotalLatency, lgCount) ]
    /\ lgMain' = "done"
    /\ UNCHANGED << lgOther, lgTime, lgReqStart, lgIn, lgPerG, lgI, lgTotalLatency, lgCount,
                    lgWorkVars, lgWg, lgChan, lgErrors, lgOk, lgFailed >>

measureAverageLatency ==
    \/ Measure_Setup
    \/ Measure_Spawn
    \/ \E w \in WorkerIds :
          \/ Measure_Issue(w)
          \/ Measure_Ok(w)
          \/ Measure_Send(w)
          \/ Measure_Err(w)
          \/ Measure_WorkerDone(w)
    \/ Measure_Wait
    \/ Measure_Drain
    \/ Measure_Return

(* benchmarkServer *)

\* b.ResetTimer(); requests := b.N;
\* requestsPerGoroutine := requests / concurrency; start := time.Now()
Bench_Setup ==
    /\ lgFn = "benchmarkServer"
    /\ lgMain = "start"
    /\ lgPerG' = PerGoroutine(lgRequests, lgConcurrency)
    /\ lgStart' = lgClock
    /\ lgMain' = "spawn"
    /\ UNCHANGED << lgOther, lgClock, lgSumDur, lgSpawnAt, lgDoneAt,
                    lgReqStart, lgIn, lgI, lgTotalLatency, lgCount, lgResult,
                    lgWorkVars, lgWg, lgChan, lgErrors, lgOk, lgFailed >>

Bench_Spawn ==
    /\ lgFn = "benchmarkServer"
    /\ Spawn

\* resp, err := client.Get(url)
Bench_Issue(w) ==
    /\ lgFn = "benchmarkServer"
    /\ Issue(w)
    /\ UNCHANGED lgReqStart

\* err == nil; io.ReadAll(resp.Body); resp.Body.Close(); j++
Bench_Ok(w) ==
    /\ lgFn = "benchmarkServer"
    /\ lgW[w] = "get"
    /\ lgOk' = lgOk + 1
    /\ lgJ' = [lgJ EXCEPT ![w] = LoopNext(@)]
    /\ lgW' = [lgW EXCEPT ![w] = "loop"]
    /\ UNCHANGED << lgOther, lgTime, lgReqStart, lgIn, lgMainVars, lgAttempts, lgWg, lgChan,
                    lgErrors, lgFailed >>

\* err != nil; b.Errorf("Request failed: %v", err); continue; j++
Bench_Err(w) ==
    /\ lgFn = "benchmarkServer"
    /\ lgW[w] = "get"
    /\ lgFailed' = lgFailed + 1
    /\ lgErrors' = lgErrors + 1
    /\ lgJ' = [lgJ EXCEPT ![w] = LoopNext(@)]
    /\ lgW' = [lgW EXCEPT ![w] = "loop"]
    /\ UNCHANGED << lgOther, lgTime, lgReqStart, lgIn, lgMainVars, lgAttempts, lgWg, lgChan,
                    lgOk >>

Bench_WorkerDone(w) ==
    /\ lgFn = "benchmarkServer"
    /\ WorkerDone(w)

\* the loop over i has ended; wg.Wait(); duration := time.Since(start);
\* b.ReportMetric(float64(requests)/duration.Seconds(), "req/s");
\* b.ReportMetric(float64(duration.Milliseconds())/float64(requests), "ms/req")
Bench_Report ==
    /\ lgFn = "benchmarkServer"
    /\ lgMain = "spawn"
    /\ ~ SpawnMore(lgI, lgConcurrency)
    /\ WaitGroupZero(lgWg)
    /\ LET duration == Since(lgStart, lgClock)
       IN  lgResult' = [ reqPerS  |-> Quotient(lgRequests, duration),
                         msPerReq |-> Quotient(duration, lgRequests) ]
    /\ lgMain' = "done"
    /\ UNCHANGED << lgOther, lgTime, lgReqStart, lgIn, lgPerG, lgI, lgTotalLatency, lgCount,
                    lgWorkVars, lgWg, lgChan, lgErrors, lgOk, lgFailed >>

benchmarkServer ==
    \/ Bench_Setup
    \/ Bench_Spawn
    \/ \E w \in WorkerIds :
          \/ Bench_Issue(w)
          \/ Bench_Ok(w)
          \/ Bench_Err(w)
          \/ Bench_WorkerDone(w)
    \/ Bench_Report

\* the wall clock advances while the run has not returned; every request in
\* flight lasts one unit longer
LoadTick ==
    /\ lgFn # "none"
    /\ lgMain # "done"
    /\ lgClock < MaxLoadClock
    /\ lgClock' = lgClock + 1
    /\ lgSumDur' = lgSumDur + Cardinality(InFlightRequests)
    /\ UNCHANGED << lgOther, lgStart, lgSpawnAt, lgDoneAt, lgReqStart, lgIn,
                    lgMainVars, lgWorkVars, lgWg, lgChan, lgErrors, lgOk,
                    lgFailed >>

LoadNext ==
    \/ measureAverageLatency
    \/ benchmarkServer
    \/ LoadTick

SpecLoad == LoadInit /\ [][LoadNext]_vars

\* the run has produced its result
LoadReturned == lgResult # NoResult

\* the workers the run was asked for
Asked == 1 .. lgConcurrency

\* C16: the load generator starts exactly `concurrency` workers and each
\* of them issues exactly floor(totalRequests / concurrency) requests: no
\* worker ever issues more, no worker other than the first `concurrency`
\* ones ever starts, and when the run has returned every one of them has
\* issued exactly that many, so the remainder is never issued.
C16_EvenPartition ==
    /\ Spawned \subseteq Asked
    /\ \A w \in WorkerIds :
          lgAttempts[w] <= lgRequests \div lgConcurrency
    /\ LoadReturned =>
          /\ Spawned = Asked
          /\ \A w \in Asked :
                lgAttempts[w] = lgRequests \div lgConcurrency
          /\ \A w \in WorkerIds \ Asked : lgAttempts[w] = 0

\* a finished run of two workers whose request count left a remainder
C16_Witness ==
    /\ LoadReturned
    /\ lgConcurrency = 2
    /\ lgRequests % lgConcurrency = 1
    /\ lgRequests \div lgConcurrency >= 1
    /\ \A w \in Asked : lgAttempts[w] = lgRequests \div lgConcurrency

\* C17: a run drains its samples, returns or reports only after every
\* worker has ended its loop: no worker then has a request still to issue,
\* in flight, or a sample still to send.
C17_JoinBeforeResult ==
    (lgMain \in {"drain", "done"} /\ lgFn # "none") =>
        /\ Spawned = Asked
        /\ \A w \in Asked : lgW[w] = "done" /\ lgJ[w] = lgPerG

\* a run of two workers returned after requests that succeeded and failed
C17_Witness ==
    /\ LoadReturned
    /\ lgConcurrency = 2
    /\ lgOk >= 1
    /\ lgFailed >= 1
    /\ \A w \in Asked : lgW[w] = "done" /\ lgAttempts[w] >= 1

\* C18: the number of requests of one run that are in flight together
\* never exceeds `concurrency`; a worker issues a request only from the
\* head of its loop, where its previous request has returned or failed.
C18_InFlightBounded ==
    /\ Cardinality(InFlightRequests) <= lgConcurrency
    /\ \A w \in WorkerIds :
          lgW[w] = "get" => lgAttempts[w] = lgJ[w] + 1

\* every worker of a run of two has its second request in flight
C18_Witness ==
    /\ lgConcurrency = 2
    /\ InFlightRequests = Asked
    /\ \A w \in Asked : lgAttempts[w] = 2

\* the samples sent by a worker and not yet consumed, and those a worker
\* is about to send
SamplesPending == Len(lgChan) + Cardinality({ w \in WorkerIds : lgW[w] = "send" })

\* C19: in measureAverageLatency a failed request gives no sample and is
\* not issued again: every successful request gives one sample, which is
\* consumed once, no worker makes more attempts than it was assigned, and
\* when the run has returned the number of samples consumed is the number
\* of requests that succeeded and every worker has made exactly its
\* assigned number of attempts.
C19_FailuresGiveNoSample ==
    lgFn = "measureAverageLatency" =>
        /\ lgCount + SamplesPending = lgOk
        /\ \A w \in WorkerIds : lgAttempts[w] <= lgPerG
        /\ LoadReturned =>
              /\ lgCount = lgOk
              /\ lgChan = << >>
              /\ \A w \in Asked : lgAttempts[w] = lgPerG
              /\ lgOk + lgFailed = lgConcurrency * lgPerG

\* a returned measurement in which a request failed and another succeeded
C19_Witness ==
    /\ lgFn = "measureAverageLatency"
    /\ LoadReturned
    /\ lgFailed >= 1
    /\ lgCount >= 1
    /\ lgCount = lgOk

\* C20: in both load-generation paths an error report is emitted for
\* every request that returned an error.
C20_EveryFailureReported ==
    lgErrors = lgFailed

\* C21: a run of measureAverageLatency in which no request succeeded
\* (every request failed, or none was issued) returns the mean 0, and no
\* returned mean is a quotient by zero.
C21_EmptyMeanIsZero ==
    (lgFn = "measureAverageLatency" /\ LoadReturned) =>
        /\ lgResult.mean.den # 0
        /\ lgOk = 0 => lgResult.mean = Zero

\* a returned measurement all of whose requests, two or more, failed
C21_Witness ==
    /\ lgFn = "measureAverageLatency"
    /\ LoadReturned
    /\ lgOk = 0
    /\ lgFailed >= 2
    /\ lgResult.mean = Zero

\* C22: a run with concurrency <= 0 or with totalRequests = 0 never
\* returns a latency or throughput value.
C22_InvalidInputRejected ==
    (lgFn # "none" /\ (lgConcurrency <= 0 \/ lgRequests = 0)) =>
        /\ "mean" \notin DOMAIN lgResult
        /\ "reqPerS" \notin DOMAIN lgResult

\* C23: the throughput benchmarkServer reports is the request count over
\* the span of the clock from the reading taken before the first worker is
\* started to the reading taken after the last worker has ended, and ms/req
\* is that span over the request count; the span is not built from the
\* durations of the requests.
C23_ThroughputFromWallClock ==
    (lgFn = "benchmarkServer" /\ LoadReturned) =>
        LET span == lgResult.reqPerS.den
        IN  /\ lgResult.reqPerS = Quotient(lgRequests, span)
            /\ lgResult.msPerReq = Quotient(span, lgRequests)
            /\ lgStart + span = lgClock
            /\ lgSpawnAt # Never => lgStart <= lgSpawnAt
            /\ lgDoneAt <= lgStart + span

\* a reported run of two workers, started after the origin of the clock,
\* whose requests overlapped: their durations sum to more than the span
C23_Witness ==
    /\ lgFn = "benchmarkServer"
    /\ LoadReturned
    /\ lgConcurrency = 2
    /\ lgStart >= 1
    /\ lgResult.reqPerS.den >= 1
    /\ lgSumDur > lgResult.reqPerS.den

\* the handlers about to make their final write
AtWrite == { h \in Handlers : pc[h] \in {"write", "store"} }

\* C24: under all three strategies the record map changes only by the
\* final write of a request whose heavy work has finished; the write adds
\* one record under the key request_<id> of that request's own id, a key
\* the map did not hold, and leaves every other record as it was; the map
\* holds exactly one record for every request that has made its write.
C24_OneRecordPerRequest ==
    /\ [](/\ \A h \in Handlers :
                WriteDone(h) => FmtKey(currentCounter[h]) \in DOMAIN data
          /\ MapLen(data) = Cardinality({ h \in Handlers : WriteDone(h) }))
    /\ [][data' # data =>
            \E h \in AtWrite :
                /\ ~ WriteDone(h) /\ WriteDone(h)'
                /\ result[h] = CpuLoop
                /\ FmtKey(currentCounter[h]) \notin DOMAIN data
                /\ DOMAIN data' = DOMAIN data \cup {FmtKey(currentCounter[h])}
                /\ \A k \in DOMAIN data : data'[k] = data[k]
         ]_vars

\* every request has written its record while another had not returned
C24_Witness ==
    /\ \A h \in Handlers : WriteDone(h)
    /\ DOMAIN data = { FmtKey(i) : i \in 1 .. NumHandlers }
    /\ \E h \in Handlers : pc[h] # "done"

\* C25: under all three strategies no step of the stats query changes the
\* request counter or the record map, whatever the handlers are doing.
C25_StatsReadOnly ==
    [][statsVars' # statsVars => (counter' = counter /\ data' = data)]_vars

\* a stats query answered while a request that has its id is in flight and
\* another has written its record
C25_Witness ==
    /\ statsOut # NoResponse
    /\ statsBegin = -1
    /\ \E h \in Allocated : pc[h] # "done" /\ ~ WriteDone(h)
    /\ data # EmptyMap

\* C26: a handler holds the mutex exactly when it has made one more Lock
\* than Unlock, and only the holder unlocks.  Under MinimalLock a handler
\* in its heavy work has locked once and unlocked once, and a handler that
\* has returned has locked twice and unlocked twice.  Under HeldLock a
\* handler locks once and its one Unlock is the step by which it returns.
\* No handler that has returned holds the mutex.
C26_LockPairs ==
    /\ [](strategy \in {HeldLock, MinimalLock} =>
            \A h \in Handlers :
              /\ released[h] <= acquired[h]
              /\ mu = h <=> acquired[h] = released[h] + 1
              /\ pc[h] = "done" => mu # h
              /\ strategy = MinimalLock =>
                    /\ InHeavyWork(h) => (acquired[h] = 1 /\ released[h] = 1)
                    /\ pc[h] = "done" => (acquired[h] = 2 /\ released[h] = 2)
              /\ strategy = HeldLock =>
                    /\ pc[h] = "done" => (acquired[h] = 1 /\ released[h] = 1)
                    /\ pc[h] # "done" => released[h] = 0)
    /\ [][\A h \in Handlers :
            released'[h] # released[h] =>
                /\ mu = h
                /\ strategy = HeldLock => pc'[h] = "done"
         ]_vars

\* one handler has returned and the other is in its second critical
\* section, holding the mutex for the second time
C26_Witness ==
    /\ strategy = MinimalLock
    /\ \E h1, h2 \in Handlers :
          /\ pc[h1] = "done" /\ released[h1] = 2
          /\ mu = h2 /\ acquired[h2] = 2 /\ released[h2] = 1

\* the handlers that have built their response
Answered == { h \in Handlers : response[h] # NoResponse }

\* C27 (as claimed): the duration in a response is the time of the
\* request's own steps from its id allocation to its final write, so it
\* leaves out the ticks the request waited for the mutex before its id
\* allocation: it is at most the time since the handler's start less
\* those ticks.
C27_DurationExcludesWait ==
    \A h \in Answered :
        response[h].duration <= (tclock - start[h]) - tWaited[h]

\* C27 (amended): the duration in a response is measured from the
\* handler's start, read before the first Lock, to the building of the
\* response after the final write: it covers the heavy work of the request
\* and the ticks the request waited for the mutex before its id
\* allocation, and no more than the time since the handler's start.
C27_DurationFromEntry ==
    \A h \in Answered :
        /\ response[h].duration >= tWaited[h] + WorkTicks
        /\ response[h].duration <= tclock - start[h]

\* under HeldLock a request that started after the clock's origin and
\* waited for the rest of the work of another reports a duration that
\* includes the wait
C27_Witness ==
    /\ strategy = HeldLock
    /\ \E h \in Answered :
          /\ start[h] >= 1
          /\ tWaited[h] >= 1
          /\ response[h].duration = tWaited[h] + WorkTicks

\* C28 (as claimed): every stats response has data_size <= total_requests,
\* under all three strategies.
C28_SizeAtMostTotal ==
    statsOut # NoResponse => statsOut.data_size <= statsOut.total_requests

\* C28 (amended): under HeldLock and MinimalLock every stats response has
\* data_size <= total_requests.  Under LockFree, where the counter is
\* loaded before the records are counted, neither number of a response
\* exceeds the number of ids allocated so far.
C28_SizeAtMostAllocated ==
    statsOut # NoResponse =>
        /\ strategy # LockFree =>
              statsOut.data_size <= statsOut.total_requests
        /\ statsOut.data_size <= counter
        /\ statsOut.total_requests <= counter

\* a LockFree response that counts every record and fewer requests
C28_Witness ==
    /\ strategy = LockFree
    /\ statsOut # NoResponse
    /\ statsOut.data_size = counter
    /\ statsOut.total_requests < statsOut.data_size

\* GoodHandler has left its first critical section and not its second
BetweenSections(h) ==
    pc[h] \in {"sleep", "cpu", "lock2", "write", "unlock2"}

\* C29: when the stats query of a mutex server reads the repository, under
\* HeldLock the counter equals the number of records, and under
\* MinimalLock the counter less the number of records is the number of
\* requests that have left their first critical section and not their
\* second; the response carries the two numbers read.
C29_StatsGap ==
    /\ [][(statsPc = "read" /\ statsPc' = "unlock") =>
            /\ strategy = HeldLock => statsCounter' = statsDataSize'
            /\ strategy = MinimalLock =>
                  statsCounter' - statsDataSize' =
                      Cardinality({ h \in Handlers : BetweenSections(h) })
         ]_vars
    /\ []((strategy # LockFree /\ statsOut # NoResponse) =>
            /\ statsOut = [ total_requests |-> statsCounter,
                            data_size |-> statsDataSize ]
            /\ strategy = HeldLock =>
                  statsOut.total_requests = statsOut.data_size)

\* a MinimalLock response read while every request was in its heavy work
C29_Witness ==
    /\ strategy = MinimalLock
    /\ statsOut # NoResponse
    /\ statsOut.total_requests = NumHandlers
    /\ statsOut.data_size = 0

\* the keys request_i of the ids in a set
KeysOf(ids) == { FmtKey(i) : i \in ids }

\* C30 (as claimed): the snapshot of the request with id k holds only
\* records of requests with id less than k, under all three strategies,
\* and under HeldLock exactly the keys request_1 .. request_(k-1).
C30_SnapshotBelowOwnId ==
    \A h \in Handlers :
        SnapshotTaken(h) =>
            /\ DOMAIN Snapshot(h) \subseteq KeysOf(1 .. (currentCounter[h] - 1))
            /\ strategy = HeldLock =>
                  DOMAIN Snapshot(h) = KeysOf(1 .. (currentCounter[h] - 1))

\* C30 (amended): the snapshot of the request with id k holds under
\* HeldLock exactly the keys request_1 .. request_(k-1) and under
\* MinimalLock a subset of them.  Under LockFree, where the id is
\* allocated before the iteration begins, it holds only records of other
\* requests that have their id, of ids less or greater than k.
C30_SnapshotOfOthers ==
    \A h \in Handlers :
        SnapshotTaken(h) =>
            /\ strategy = HeldLock =>
                  DOMAIN Snapshot(h) = KeysOf(1 .. (currentCounter[h] - 1))
            /\ strategy = MinimalLock =>
                  DOMAIN Snapshot(h) \subseteq
                      KeysOf(1 .. (currentCounter[h] - 1))
            /\ strategy = LockFree =>
                  DOMAIN Snapshot(h) \subseteq
                      KeysOf((1 .. counter) \ {currentCounter[h]})

\* under LockFree the snapshot of the request with id 1 holds the record
\* of the request with id 2
C30_Witness ==
    /\ strategy = LockFree
    /\ \E h \in Handlers :
          /\ SnapshotTaken(h)
          /\ currentCounter[h] = 1
          /\ FmtKey(2) \in DOMAIN Snapshot(h)

\* goroutines are scheduled fairly: a step of the run that stays possible
\* is taken
SpecLoadFair ==
    /\ SpecLoad
    /\ WF_vars(measureAverageLatency)
    /\ WF_vars(benchmarkServer)

\* C31: in measureAverageLatency the samples sent and about to be sent
\* never exceed the capacity totalRequests of the channel, so a worker
\* about to send finds room in the buffer; and every run returns.
C31_SendNeverBlocks ==
    /\ [](lgFn = "measureAverageLatency" =>
            /\ SamplesPending + lgCount <= ChanCap(lgRequests)
            /\ \A w \in WorkerIds :
                  lgW[w] = "send" => Len(lgChan) < ChanCap(lgRequests))
    /\ (lgFn = "measureAverageLatency") ~> (lgMain = "done")

\* the buffer is full: every one of the totalRequests requests of a run of
\* two workers has sent its sample, and the workers have not been joined
C31_Witness ==
    /\ lgFn = "measureAverageLatency"
    /\ lgConcurrency = 2
    /\ lgRequests >= 2
    /\ Len(lgChan) = lgRequests
    /\ lgMain = "spawn"

\* C32: the request count benchmarkServer uses in its req/s and ms/req
\* metrics is the number of requests its workers issued.
C32_MetricCountsIssued ==
    (lgFn = "benchmarkServer" /\ LoadReturned) =>
        /\ lgResult.reqPerS.num = lgOk + lgFailed
        /\ lgResult.msPerReq.den = lgOk + lgFailed

\* a step of a request that has been received
Progress(h) ==
    /\ pc[h] # "idle"
    /\ (BadHandler(h) \/ GoodHandler(h) \/ SyncMapHandler(h))

\* a step of the stats query
StatsStep == BadStatsHandler \/ GoodStatsHandler \/ SyncStatsHandler

\* the scheduler keeps running goroutines: while a received request or the
\* stats query can take a step, one of them takes a step
SpecFair ==
    /\ Spec
    /\ WF_vars((\E h \in Handlers : Progress(h)) \/ StatsStep)

\* C33: under each strategy, while a received request or the stats query
\* has not returned, one of them can take a step; and when the scheduler
\* keeps running them, every received request returns its response and
\* the stats query returns.
C33_NoDeadlockAndTermination ==
    /\ []((InFlight # {} \/ statsPc # "done") =>
            ENABLED ((\E h \in Handlers : Progress(h)) \/ StatsStep))
    /\ \A h \in Handlers : (pc[h] # "idle") ~> (pc[h] = "done")
    /\ <>(statsPc = "done")

\* under HeldLock a request and the stats query wait for the mutex that
\* another request holds
C33_Witness ==
    /\ strategy = HeldLock
    /\ statsPc = "idle"
    /\ \E h1, h2 \in Handlers :
          /\ mu = h1 /\ pc[h1] = "sleep"
          /\ pc[h2] = "lock"

====
